---- MODULE Spec2Model ----
(***************************************************************************)
(* Model of csp_adapter_discord.adapter.DiscordAdapter.                    *)
(*                                                                         *)
(* DiscordAdapter subclasses chatom.csp.BackendAdapter.  Its constructor   *)
(* builds one DiscordBackend and hands it to the base class; subscribe,    *)
(* publish and publish_presence are graph-wiring methods that forward to   *)
(* the base class.  The model records what the base class is handed: the   *)
(* arguments of every base subscribe call, every message that ticks on an  *)
(* edge wired to the base publish, and every status string (with the       *)
(* timeout) that reaches the base publish_presence.                        *)
(*                                                                         *)
(* What the base class and the backend do with what they are handed        *)
(* (connecting, resolving channel names, filtering, sending, raising) is   *)
(* code of the chatom package, which is not part of this repository; it    *)
(* is not modelled here.                                                   *)
(***************************************************************************)
EXTENDS Integers, Sequences, FiniteSets, TLC

\* ------------------------------------------------------------------ bounds

\* Wiring calls (subscribe, publish, publish_presence) made while the graph
\* is built.
MaxCalls == 2

\* Ticks (messages and presences together) during one engine run.
MaxTicks == 2

\* --------------------------------------------------------------- constants

\* adapter.py:108  timeout: float = 5.0
DefaultTimeout == 5

\* Values of the timeout argument a caller passes explicitly.
Timeouts == {DefaultTimeout, 1}

\* An argument the caller leaves out, so that the default applies; an
\* argument the caller passes is Given(v).
Omitted == <<>>

Given(v) == <<v>>

\* Optional[...] values: Python's None, and a value that is not None.
None == <<>>

Some(v) == <<v>>

\* ------------------------------------------------------------------ inputs

\* DiscordConfig values (the bot token stands for the whole config).
Configs == {"cfgA", "cfgB"}

\* Values of the channels argument: None, the empty set, sets of names/ids.
ChannelArgs == {None, Some({}), Some({"general"}), Some({"general", "random"})}

\* DiscordMessage values that tick on an edge wired to publish.
Messages == {[channel_id |-> c, content |-> t] : c \in {"general", "random"}, t \in {"hi", "yo"}}

\* DiscordPresence.status values.  An enum member has a value attribute and
\* its own str(); a plain string has no value attribute and is its own str().
Statuses ==
    { [value |-> "idle",   str |-> "PresenceStatus.IDLE"],
      [value |-> "online", str |-> "PresenceStatus.ONLINE"],
      [str |-> "dnd"] }

\* DiscordPresence values.
Presences == {[status |-> s] : s \in Statuses}

\* ------------------------------------------------------------------- state

VARIABLES
    backend,        \* the DiscordBackend built by __init__
    pc,             \* "graph": the graph is being built; "run": the engine runs
    baseSubscribe,  \* the argument records of the base subscribe calls, in order
    pubIn,          \* per publish call: the messages ticked on its msg edge
    basePub,        \* per publish call: the messages the base publish saw
    presIn,         \* per publish_presence call: the presences ticked
    basePres,       \* per publish_presence call: timeout and strings the base saw
    subCalls,       \* per subscribe call: the caller's arguments and the stream returned
    presCalls       \* per publish_presence call: the caller's timeout argument

adapterVars == <<backend, pc, baseSubscribe, pubIn, basePub, presIn, basePres,
                 subCalls, presCalls>>

\* ============================================================== legacy config
\* csp_adapter_discord.adapter_config.DiscordAdapterConfig

\* adapter_config.py:36  if len(v) == 72
TokenLen == 72

\* Strings are sequences of characters.
RECURSIVE Rep(_, _)
Rep(c, n) == IF n = 0 THEN <<>> ELSE <<c>> \o Rep(c, n - 1)

\* The characters str.strip() removes.
Whitespace == {" ", "\n"}

RECURSIVE lstrip(_)
lstrip(s) == IF s # <<>> /\ Head(s) \in Whitespace THEN lstrip(Tail(s)) ELSE s

RECURSIVE rstrip(_)
rstrip(s) ==
    IF s # <<>> /\ s[Len(s)] \in Whitespace THEN rstrip(SubSeq(s, 1, Len(s) - 1)) ELSE s

\* str.strip()
strip(s) == rstrip(lstrip(s))

\* Token strings a caller passes: of the valid length, one short, one long,
\* empty, a relative file name, and a name of the valid length.
TokenFile == <<".", "t", "o", "k", "e", "n">>

LongName == Rep("p", TokenLen)

Tokens ==
    { Rep("x", TokenLen), Rep("x", TokenLen - 1), Rep("x", TokenLen + 1),
      <<>>, <<".">>, TokenFile, LongName }

\* intents: Optional[List[str]]
IntentArgs == {None, Some(<<>>), Some(<<"guilds", "guild_messages">>)}

\* The paths of the file system a token can name.  Path("") is Path(".").
Paths == {<<".">>, TokenFile, LongName}

Path(v) == IF v = <<>> THEN <<".">> ELSE v

\* What a path holds: nothing, a directory, or a file with its text.
FileTexts ==
    { Rep("x", TokenLen) \o <<"\n">>,
      <<" ">> \o Rep("y", TokenLen) \o <<"\n", "\n">>,
      Rep("x", TokenLen - 1) \o <<"\n">>,
      Rep("z", TokenLen),
      <<>> }

Entries ==
    {[kind |-> "absent", text |-> <<>>], [kind |-> "dir", text |-> <<>>]}
        \cup {[kind |-> "file", text |-> t] : t \in FileTexts}

\* The current directory exists and is a directory.
FileSystems == {f \in [Paths -> Entries] : f[<<".">>].kind = "dir"}

\* No exception.
NoError == ""

\* Python's None, for a variable that holds no object.
NoObject == [kind |-> "None"]

VARIABLES
    fs,          \* the file system validate_token reads
    cfgPc,       \* "new", "built" (a config object exists), "failed", "converted"
    given,       \* the arguments DiscordAdapterConfig(...) was called with
    legacy,      \* the DiscordAdapterConfig object, or NoObject
    cfgErr,      \* the exception construction raised, or NoError
    chatomCfg    \* the DiscordConfig to_discord_config returned, or NoObject

cfgVars == <<fs, cfgPc, given, legacy, cfgErr, chatomCfg>>

VARIABLES
    mainPc,       \* main_async: "phase1", "phase2", "done" (returned), "raised"
    setupPc,      \* setup_and_run_pre_csp_tests: the next step, "returned", "raised"
    setupConn,    \* the Phase 1 backend: "none", "connected", "disconnected"
    setupResult,  \* what the setup returned: "none", "True", "False"
    engine,       \* the csp engine: "notstarted", "running", "stopped"
    now,          \* engine time since the start of the run
    alarms,       \* the scheduled alarms: [name, time, val]
    State,        \* the TestState fields the graph reads and writes
    hiState,      \* handle_inbound: s_found, s_timeout_scheduled
    itState,      \* inbound_timeout: s_timed_out
    inbound,      \* inbound ticks so far
    hist          \* what happened: steps run, outcomes taken, messages emitted and published

e2eVars == <<mainPc, setupPc, setupConn, setupResult, engine, now, alarms, State,
             hiState, itState, inbound, hist>>

\* TestState.__init__ (the fields the graph uses).
TestState ==
    [ bot_user_id |-> None, received_message |-> None,
      waiting_for_inbound |-> FALSE, test_complete |-> FALSE ]

NoHist ==
    [ steps |-> <<>>, waitingSet |-> <<>>, outcomes |-> <<>>, emitted |-> <<>>,
      published |-> <<>>, presence |-> <<>>, stopAt |-> <<>> ]

\* The end-to-end state of a run that is not the end-to-end script.
E2EUnused ==
    /\ mainPc = "unused"
    /\ setupPc = "unused"
    /\ setupConn = "none"
    /\ setupResult = "none"
    /\ engine = "notstarted"
    /\ now = 0
    /\ alarms = {}
    /\ State = TestState
    /\ hiState = [s_found |-> FALSE, s_timeout_scheduled |-> FALSE]
    /\ itState = [s_timed_out |-> FALSE]
    /\ inbound = 0
    /\ hist = NoHist

otherVars == <<cfgVars, e2eVars>>

vars == <<adapterVars, cfgVars, e2eVars>>

\* The config state of a run that uses no legacy config.
ConfigUnused ==
    /\ fs = [p \in Paths |-> IF p = <<".">> THEN [kind |-> "dir", text |-> <<>>]
                                            ELSE [kind |-> "absent", text |-> <<>>]]
    /\ cfgPc = "unused"
    /\ given = NoObject
    /\ legacy = NoObject
    /\ cfgErr = NoError
    /\ chatomCfg = NoObject

\* Path(v).exists()
exists(f, p) == p \in Paths /\ f[p].kind # "absent"

ValueErrorText == "Token must be valid or a file path"

\* Path(v).read_text(): the text of a file; opening a directory raises.
read_text(f, p) ==
    IF f[p].kind = "file" THEN [raised |-> NoError, text |-> f[p].text]
                          ELSE [raised |-> "IsADirectoryError", text |-> <<>>]

\* adapter_config.py:35-38, for the value v the token now has.
check_length(v) ==
    IF Len(v) = TokenLen THEN [raised |-> NoError, value |-> v]
                         ELSE [raised |-> ValueErrorText, value |-> <<>>]

\* DiscordAdapterConfig.validate_token
validate_token(f, v) ==
    IF exists(f, Path(v))
    THEN LET r == read_text(f, Path(v))
         IN  IF r.raised # NoError THEN [raised |-> r.raised, value |-> <<>>]
                                ELSE check_length(strip(r.text))
    ELSE check_length(v)

\* DiscordAdapterConfig(token=..., intents=...): the field validator runs; an
\* exception leaves no object.
DiscordAdapterConfig(token, intents) ==
    /\ cfgPc = "new"
    /\ given' = [token |-> token, intents |-> intents]
    /\ LET r == validate_token(fs, token)
       IN  IF r.raised = NoError
           THEN /\ legacy' = [token |-> r.value, intents |-> intents]
                /\ cfgErr' = NoError
                /\ cfgPc' = "built"
           ELSE /\ legacy' = NoObject
                /\ cfgErr' = r.raised
                /\ cfgPc' = "failed"
    /\ UNCHANGED <<fs, chatomCfg>>
    /\ UNCHANGED <<adapterVars, e2eVars>>

\* pydantic's SecretStr and its get_secret_value().
SecretStr(v) == [secret |-> v]

get_secret_value(s) == s.secret

\* chatom's DiscordConfig(bot_token=..., intents=...), as the repository's test
\* reads it back: the token as a secret, the intents as given.
DiscordConfig(bot_token, intents) ==
    [kind |-> "DiscordConfig", bot_token |-> SecretStr(bot_token), intents |-> intents]

\* to_discord_config as it would be if it left the intents out.
to_discord_config_no_intents ==
    /\ cfgPc = "built"
    /\ chatomCfg' = DiscordConfig(legacy.token, None)
    /\ cfgPc' = "converted"
    /\ UNCHANGED <<fs, given, legacy, cfgErr>>
    /\ UNCHANGED <<adapterVars, e2eVars>>

\* DiscordAdapterConfig.to_discord_config
to_discord_config ==
    /\ cfgPc = "built"
    /\ chatomCfg' = DiscordConfig(legacy.token, legacy.intents)
    /\ cfgPc' = "converted"
    /\ UNCHANGED <<fs, given, legacy, cfgErr>>
    /\ UNCHANGED <<adapterVars, e2eVars>>

\* The adapter state of a run that builds no adapter graph.
AdapterUnused ==
    /\ backend = [config |-> "cfgA"]
    /\ pc = "unused"
    /\ baseSubscribe = <<>>
    /\ pubIn = <<>>
    /\ basePub = <<>>
    /\ presIn = <<>>
    /\ basePres = <<>>
    /\ subCalls = <<>>
    /\ presCalls = <<>>

InitConfig ==
    /\ fs \in FileSystems
    /\ cfgPc = "new"
    /\ given = NoObject
    /\ legacy = NoObject
    /\ cfgErr = NoError
    /\ chatomCfg = NoObject
    /\ AdapterUnused
    /\ E2EUnused

NextConfig ==
    \/ \E t \in Tokens, i \in IntentArgs : DiscordAdapterConfig(t, i)
    \/ to_discord_config

SpecConfig == InitConfig /\ [][NextConfig]_vars

\* ----------------------------------------------------------------- helpers

\* Python's default-argument rule.
Default(arg, dflt) == IF arg = Omitted THEN dflt ELSE arg[1]

\* hasattr(obj, name)
hasattr(obj, name) == name \in DOMAIN obj

Calls == Len(baseSubscribe) + Len(pubIn) + Len(presIn)

RECURSIVE SumLen(_)
SumLen(ss) == IF ss = <<>> THEN 0 ELSE Len(Head(ss)) + SumLen(Tail(ss))

Ticks == SumLen(pubIn) + SumLen(presIn)

\* ----------------------------------------------------------------- actions

\* DiscordAdapter.__init__: backend = DiscordBackend(config=config);
\* super().__init__(backend).
Init ==
    /\ backend \in {[config |-> c] : c \in Configs}
    /\ pc = "graph"
    /\ baseSubscribe = <<>>
    /\ pubIn = <<>>
    /\ basePub = <<>>
    /\ presIn = <<>>
    /\ basePres = <<>>
    /\ subCalls = <<>>
    /\ presCalls = <<>>
    /\ ConfigUnused
    /\ E2EUnused

\* The keyword arguments as they would be with the two flags exchanged.
SubscribeArgs_swapped(channels, skip_own, skip_history) ==
    [channels |-> channels, skip_own |-> skip_history, skip_history |-> skip_own]

\* The keyword arguments DiscordAdapter.subscribe hands to super().subscribe.
SubscribeArgs(channels, skip_own, skip_history) ==
    [channels |-> channels, skip_own |-> skip_own, skip_history |-> skip_history]

\* DiscordAdapter.subscribe(channels=None, skip_own=True, skip_history=True)
subscribe(channels, skip_own, skip_history) ==
    /\ pc = "graph"
    /\ Calls < MaxCalls
    /\ baseSubscribe' = Append(baseSubscribe,
                               SubscribeArgs(Default(channels, None),
                                             Default(skip_own, TRUE),
                                             Default(skip_history, TRUE)))
    \* return super().subscribe(...): the caller gets the stream of this base call
    /\ subCalls' = Append(subCalls,
                          [channels |-> channels, skip_own |-> skip_own,
                           skip_history |-> skip_history,
                           returned |-> Len(baseSubscribe) + 1])
    /\ UNCHANGED <<backend, pc, pubIn, basePub, presIn, basePres, presCalls>>
    /\ UNCHANGED otherVars

\* DiscordAdapter.publish(msg): the msg edge is handed to super().publish.
publish ==
    /\ pc = "graph"
    /\ Calls < MaxCalls
    /\ pubIn' = Append(pubIn, <<>>)
    /\ basePub' = Append(basePub, <<>>)
    /\ UNCHANGED <<backend, pc, baseSubscribe, presIn, basePres, subCalls, presCalls>>
    /\ UNCHANGED otherVars

\* DiscordAdapter.publish_presence(presence, timeout=5.0): the presence edge
\* goes through _extract_presence_status, whose output edge is handed to
\* super().publish_presence together with the timeout.
publish_presence(timeout) ==
    /\ pc = "graph"
    /\ Calls < MaxCalls
    /\ presIn' = Append(presIn, <<>>)
    /\ basePres' = Append(basePres,
                          [timeout |-> Default(timeout, DefaultTimeout), statuses |-> <<>>])
    /\ presCalls' = Append(presCalls, timeout)
    /\ UNCHANGED <<backend, pc, baseSubscribe, pubIn, basePub, subCalls>>
    /\ UNCHANGED otherVars

\* csp.run(graph, ...): the graph is built, the engine starts.
run ==
    /\ pc = "graph"
    /\ pc' = "run"
    /\ UNCHANGED <<backend, baseSubscribe, pubIn, basePub, presIn, basePres,
                   subCalls, presCalls>>
    /\ UNCHANGED otherVars

\* What the base publish sees when m ticks on the edge it was handed.
PublishForward(m) == m

\* A message ticks on the msg edge of the i-th publish call.
TickMsg(i, m) ==
    /\ pc = "run"
    /\ Ticks < MaxTicks
    /\ i \in 1..Len(pubIn)
    /\ pubIn' = [pubIn EXCEPT ![i] = Append(@, m)]
    /\ basePub' = [basePub EXCEPT ![i] = Append(@, PublishForward(m))]
    /\ UNCHANGED <<backend, pc, baseSubscribe, presIn, basePres, subCalls, presCalls>>
    /\ UNCHANGED otherVars

\* _extract_presence_status as it would be if it always took str(p.status).
extract_presence_status_str(p) == p.status.str

\* DiscordAdapter._extract_presence_status:
\*   return p.status.value if hasattr(p.status, "value") else str(p.status)
extract_presence_status(p) ==
    IF hasattr(p.status, "value") THEN p.status.value ELSE p.status.str

\* A presence ticks on the presence edge of the i-th publish_presence call.
TickPresence(i, p) ==
    /\ pc = "run"
    /\ Ticks < MaxTicks
    /\ i \in 1..Len(presIn)
    /\ presIn' = [presIn EXCEPT ![i] = Append(@, p)]
    /\ basePres' = [basePres EXCEPT
                      ![i].statuses = Append(@, extract_presence_status(p))]
    /\ UNCHANGED <<backend, pc, baseSubscribe, pubIn, basePub, subCalls, presCalls>>
    /\ UNCHANGED otherVars

Next ==
    \/ \E c \in {Given(x) : x \in ChannelArgs} \cup {Omitted},
          o \in {Given(x) : x \in BOOLEAN} \cup {Omitted},
          h \in {Given(x) : x \in BOOLEAN} \cup {Omitted} : subscribe(c, o, h)
    \/ publish
    \/ \E t \in {Given(x) : x \in Timeouts} \cup {Omitted} : publish_presence(t)
    \/ run
    \/ \E i \in 1..MaxCalls, m \in Messages : TickMsg(i, m)
    \/ \E i \in 1..MaxCalls, p \in Presences : TickPresence(i, p)

Spec == Init /\ [][Next]_vars

\* ------------------------------------------------------------- type check

TypeOK ==
    /\ backend \in {[config |-> c] : c \in Configs}
    /\ pc \in {"graph", "run"}
    /\ Len(pubIn) = Len(basePub)
    /\ Len(presIn) = Len(basePres)
    /\ Len(presIn) = Len(presCalls)
    /\ Len(subCalls) = Len(baseSubscribe)
    /\ Calls <= MaxCalls
    /\ Ticks <= MaxTicks

\* ============================================================ end-to-end run
\* csp_adapter_discord.tests.discord_csp_e2e: main_async, the Phase 1 setup and
\* the Phase 2 graph.  Times are in milliseconds.

\* discord_csp_e2e.py:450  csp.schedule_alarm(a_step, timedelta(milliseconds=500), 0)
FirstStepDelay == 500

\* discord_csp_e2e.py:461  csp.schedule_alarm(a_step, timedelta(seconds=1), 1)
StepDelay == 1000

\* discord_csp_e2e.py:565  csp.schedule_alarm(a_timeout, timedelta(seconds=10), True)
InboundAlarmDelay == 10000

\* discord_csp_e2e.py:668  csp.schedule_alarm(a_timeout, timedelta(seconds=15), True)
TimeoutDelay == 15000

\* discord_csp_e2e.py:644  csp.schedule_alarm(a_stop, timedelta(seconds=1), True)
StopDelay == 1000

\* discord_csp_e2e.py:712  csp.schedule_alarm(a_idle, timedelta(seconds=3), True)
IdleDelay == 3000

\* discord_csp_e2e.py:713  csp.schedule_alarm(a_online, timedelta(seconds=5), True)
OnlineDelay == 5000

\* discord_csp_e2e.py:745  endtime=timedelta(seconds=30)
EndTime == 30000

\* Inbound ticks of one run.
MaxInbound == 2

\* The wall-clock times at which an inbound tick may arrive.
InboundTimes == {k * 500 : k \in 0..60}

\* bot_info.id, and the author of a message that is not the bot's.
BotId == "bot"

UserId == "user"

\* Inbound messages: by the bot, by a user, and one with no author_id attribute.
InboundMessages ==
    { [id |-> "m1", author_id |-> BotId],
      [id |-> "m2", author_id |-> UserId],
      [id |-> "m3"] }

\* The lists that tick on the subscription (ts[[Message]]).
InboundLists ==
    {<<m>> : m \in InboundMessages}
        \cup {<<a, b>> : a \in {[id |-> "m1", author_id |-> BotId]}, b \in InboundMessages}

\* An edge that did not tick in this engine cycle, and one that ticked with v.
NoTick == <<>>

Tick(v) == <<v>>

ticked(e) == e # NoTick

graphVars == <<engine, now, alarms, hiState, itState, inbound, hist>>

\* ------------------------------------------------------------------ Phase 1

\* await backend.connect()
SetupConnect(ok) ==
    /\ mainPc = "phase1" /\ setupPc = "connect"
    /\ IF ok THEN setupConn' = "connected" /\ setupPc' = "guild" /\ mainPc' = mainPc
             ELSE setupConn' = setupConn /\ setupPc' = "raised" /\ mainPc' = "raised"
    /\ UNCHANGED <<setupResult, State, graphVars>>
    /\ UNCHANGED <<adapterVars, cfgVars>>

\* guild_id = await resolve_guild(...): not found (or an exception, which
\* resolve_guild turns into None) returns False.
SetupGuild(found) ==
    /\ mainPc = "phase1" /\ setupPc = "guild"
    /\ IF found THEN setupPc' = "channel" /\ setupResult' = setupResult
                ELSE setupPc' = "returned" /\ setupResult' = "False"
    /\ UNCHANGED <<mainPc, setupConn, State, graphVars>>
    /\ UNCHANGED <<adapterVars, cfgVars>>

\* channel = await backend.fetch_channel_by_name(...): None or an exception
\* returns False.
SetupChannel(outcome) ==
    /\ mainPc = "phase1" /\ setupPc = "channel"
    /\ IF outcome = "found" THEN setupPc' = "user" /\ setupResult' = setupResult
                            ELSE setupPc' = "returned" /\ setupResult' = "False"
    /\ UNCHANGED <<mainPc, setupConn, State, graphVars>>
    /\ UNCHANGED <<adapterVars, cfgVars>>

\* user_id = await lookup_user_by_name(...): found or not, the setup goes on.
SetupUser(found) ==
    /\ mainPc = "phase1" /\ setupPc = "user"
    /\ setupPc' = "botinfo"
    /\ UNCHANGED <<mainPc, setupConn, setupResult, State, graphVars>>
    /\ UNCHANGED <<adapterVars, cfgVars>>

\* bot_info = await backend.get_bot_info(): None returns False, an exception
\* leaves the setup and main_async.
SetupBotInfo(outcome) ==
    /\ mainPc = "phase1" /\ setupPc = "botinfo"
    /\ CASE outcome = "found" ->
              /\ State' = [State EXCEPT !.bot_user_id = Some(BotId)]
              /\ setupPc' = "fetchuser" /\ setupResult' = setupResult /\ mainPc' = mainPc
         [] outcome = "none" ->
              /\ setupPc' = "returned" /\ setupResult' = "False"
              /\ State' = State /\ mainPc' = mainPc
         [] OTHER ->
              /\ setupPc' = "raised" /\ mainPc' = "raised"
              /\ State' = State /\ setupResult' = setupResult
    /\ UNCHANGED <<setupConn, graphVars>>
    /\ UNCHANGED <<adapterVars, cfgVars>>

\* Test: Fetch User (every outcome is logged and the setup goes on).
SetupFetchUser ==
    /\ mainPc = "phase1" /\ setupPc = "fetchuser"
    /\ setupPc' = "disconnect"
    /\ UNCHANGED <<mainPc, setupConn, setupResult, State, graphVars>>
    /\ UNCHANGED <<adapterVars, cfgVars>>

\* The end of the setup as it would be if it returned True with the backend
\* still connected.
SetupDisconnect_skipped(ok) ==
    /\ mainPc = "phase1" /\ setupPc = "disconnect"
    /\ setupPc' = "returned" /\ setupResult' = "True"
    /\ UNCHANGED <<mainPc, setupConn, State, graphVars>>
    /\ UNCHANGED <<adapterVars, cfgVars>>

\* await backend.disconnect(); return True
SetupDisconnect(ok) ==
    /\ mainPc = "phase1" /\ setupPc = "disconnect"
    /\ IF ok THEN /\ setupConn' = "disconnected" /\ setupPc' = "returned"
                  /\ setupResult' = "True" /\ mainPc' = mainPc
             ELSE /\ setupConn' = setupConn /\ setupPc' = "raised"
                  /\ setupResult' = setupResult /\ mainPc' = "raised"
    /\ UNCHANGED <<State, graphVars>>
    /\ UNCHANGED <<adapterVars, cfgVars>>

\* main_async: if not await setup_and_run_pre_csp_tests(): return False
MainSetupFailed ==
    /\ mainPc = "phase1" /\ setupPc = "returned" /\ setupResult = "False"
    /\ mainPc' = "done"
    /\ UNCHANGED <<setupPc, setupConn, setupResult, State, graphVars>>
    /\ UNCHANGED <<adapterVars, cfgVars>>

\* ------------------------------------------------------------------ Phase 2
\* One engine cycle runs every node whose input ticked.  A cycle's context C
\* holds the state the nodes read and write, the output edges that ticked in
\* this cycle, and whether csp.stop_engine() was called.

Schedule(C, name, t, val) ==
    [C EXCEPT !.alarms = @ \cup {[name |-> name, time |-> t, val |-> val]}]

\* A node returns msg on its output edge.
Emit(C, edge, msg) ==
    [C EXCEPT !.out[edge] = Tick(msg), !.hist.emitted = Append(@, msg)]

AlarmTicked(due, name) == \E a \in due : a.name = name

\* The DiscordMessage a node builds.
OutMsg(node, text) == [from |-> node, text |-> text]

\* message_sender as it would be if step 4 scheduled step 5.
message_sender_chained(C, t, due) ==
    IF AlarmTicked(due, "a_step")
    THEN LET step == (CHOOSE a \in due : a.name = "a_step").val
             C1 == [C EXCEPT !.hist.steps = Append(@, [step |-> step, time |-> t])]
         IN  IF step \in 0..4
             THEN Emit(Schedule(C1, "a_step", t + StepDelay, step + 1),
                       "sender", OutMsg("message_sender", step))
             ELSE C1
    ELSE C

\* message_sender (discord_csp_e2e.py:443-550)
message_sender(C, t, due) ==
    IF AlarmTicked(due, "a_step")
    THEN LET step == (CHOOSE a \in due : a.name = "a_step").val
             C1 == [C EXCEPT !.hist.steps = Append(@, [step |-> step, time |-> t])]
         IN  CASE step \in 0..3 ->
                    Emit(Schedule(C1, "a_step", t + StepDelay, step + 1),
                         "sender", OutMsg("message_sender", step))
               [] step = 4 ->
                    Emit([C1 EXCEPT !.State.waiting_for_inbound = TRUE,
                                    !.hist.waitingSet = Append(@, step)],
                         "sender", OutMsg("message_sender", step))
               [] step = 5 ->
                    IF C1.State.received_message # None
                    THEN Emit(Schedule(C1, "a_step", t + StepDelay, 6),
                              "sender", OutMsg("message_sender", step))
                    ELSE Schedule(C1, "a_step", t + StepDelay, 6)
               [] step = 6 ->
                    [C1 EXCEPT !.State.test_complete = TRUE, !.stop = TRUE]
               [] OTHER -> C1
    ELSE C

\* for msg in msgs: skip the bot's own messages, take the first other one.
RECURSIVE FirstUserMessage(_, _)
FirstUserMessage(msgs, bot_user_id) ==
    IF msgs = <<>> THEN None
    ELSE IF hasattr(Head(msgs), "author_id") /\ Some(Head(msgs).author_id) = bot_user_id
         THEN FirstUserMessage(Tail(msgs), bot_user_id)
         ELSE Some(Head(msgs))

\* handle_inbound (discord_csp_e2e.py:553-623); msgs is the subscription edge.
handle_inbound(C, t, due, msgs) ==
    LET C1 == IF /\ ticked(msgs)
                 /\ C.State.waiting_for_inbound
                 /\ ~C.hi.s_timeout_scheduled
              THEN [Schedule(C, "a_timeout_hi", t + InboundAlarmDelay, 1)
                        EXCEPT !.hi.s_timeout_scheduled = TRUE]
              ELSE C
    IN  IF /\ AlarmTicked(due, "a_timeout_hi")
           /\ C1.State.waiting_for_inbound
           /\ ~C1.hi.s_found
        THEN Emit([C1 EXCEPT !.State.waiting_for_inbound = FALSE,
                             !.hi.s_found = TRUE,
                             !.State.test_complete = TRUE,
                             !.hist.outcomes = Append(@, [kind |-> "timeout",
                                                          node |-> "handle_inbound",
                                                          time |-> t])],
                  "inbound", OutMsg("handle_inbound", "skip"))
        ELSE IF ticked(msgs) /\ C1.State.waiting_for_inbound /\ ~C1.hi.s_found
        THEN LET got == FirstUserMessage(msgs[1], C1.State.bot_user_id)
             IN  IF got = None
                 THEN C1
                 ELSE Emit([C1 EXCEPT !.State.received_message = got,
                                      !.State.waiting_for_inbound = FALSE,
                                      !.hi.s_found = TRUE,
                                      !.State.test_complete = TRUE,
                                      !.hist.outcomes = Append(@, [kind |-> "received",
                                                                   node |-> "handle_inbound",
                                                                   time |-> t])],
                           "inbound", OutMsg("handle_inbound", "confirm"))
        ELSE C1

\* inbound_timeout as it would be if it did not look at waiting_for_inbound.
inbound_timeout_unguarded(C, t, due) ==
    IF AlarmTicked(due, "a_timeout_it") /\ ~C.it.s_timed_out
    THEN Emit([C EXCEPT !.it.s_timed_out = TRUE,
                        !.State.waiting_for_inbound = FALSE,
                        !.State.test_complete = TRUE,
                        !.hist.outcomes = Append(@, [kind |-> "timeout",
                                                     node |-> "inbound_timeout",
                                                     time |-> t])],
              "timeout", OutMsg("inbound_timeout", "skip"))
    ELSE C

\* inbound_timeout (discord_csp_e2e.py:657-683)
inbound_timeout(C, t, due) ==
    IF /\ AlarmTicked(due, "a_timeout_it")
       /\ C.State.waiting_for_inbound
       /\ ~C.it.s_timed_out
    THEN Emit([C EXCEPT !.it.s_timed_out = TRUE,
                        !.State.waiting_for_inbound = FALSE,
                        !.State.test_complete = TRUE,
                        !.hist.outcomes = Append(@, [kind |-> "timeout",
                                                     node |-> "inbound_timeout",
                                                     time |-> t])],
              "timeout", OutMsg("inbound_timeout", "skip"))
    ELSE C

\* PresenceStatus.IDLE and PresenceStatus.ONLINE
PresenceIdle == [status |-> [value |-> "idle", str |-> "PresenceStatus.IDLE"]]

PresenceOnline == [status |-> [value |-> "online", str |-> "PresenceStatus.ONLINE"]]

\* presence_sequence (discord_csp_e2e.py:706-723)
presence_sequence(C, t, due) ==
    IF AlarmTicked(due, "a_idle") THEN [C EXCEPT !.out.presence = Tick(PresenceIdle)]
    ELSE IF AlarmTicked(due, "a_online")
         THEN [C EXCEPT !.out.presence = Tick(PresenceOnline)]
         ELSE C

\* merge_messages (discord_csp_e2e.py:628-634)
merge_messages(m1, m2) == IF ticked(m1) THEN m1 ELSE IF ticked(m2) THEN m2 ELSE NoTick

\* merge_for_complete (discord_csp_e2e.py:648-654)
merge_for_complete(m1, m2) == IF ticked(m1) THEN m1 ELSE IF ticked(m2) THEN m2 ELSE NoTick

\* merge_with_timeout (discord_csp_e2e.py:691-697)
merge_with_timeout(m1, m2) == IF ticked(m1) THEN m1 ELSE IF ticked(m2) THEN m2 ELSE NoTick

\* check_complete as it would be if it stopped the engine at once.
check_complete_at_once(C, t, due, msgs) ==
    IF ticked(msgs) /\ C.State.test_complete THEN [C EXCEPT !.stop = TRUE] ELSE C

\* check_complete (discord_csp_e2e.py:638-646)
check_complete(C, t, due, msgs) ==
    LET C1 == IF ticked(msgs) /\ C.State.test_complete
              THEN Schedule(C, "a_stop", t + StopDelay, 1)
              ELSE C
    IN  IF AlarmTicked(due, "a_stop") THEN [C1 EXCEPT !.stop = TRUE] ELSE C1

\* adapter.publish(final_outbound) and adapter.publish_presence(presence)
Outputs(C) ==
    LET outbound == merge_messages(C.out.sender, C.out.inbound)
        final_outbound == merge_with_timeout(outbound, C.out.timeout)
        C1 == IF ticked(final_outbound)
              THEN [C EXCEPT !.hist.published = Append(@, PublishForward(final_outbound[1]))]
              ELSE C
    IN  IF ticked(C.out.presence)
        THEN [C1 EXCEPT !.hist.presence = Append(@, extract_presence_status(C.out.presence[1]))]
        ELSE C1

\* The nodes with no node upstream, which the graph does not order.
SourceNodes == {"message_sender", "handle_inbound", "inbound_timeout"}

Orders == {o \in [1..3 -> SourceNodes] : \A n \in SourceNodes : \E i \in 1..3 : o[i] = n}

RunNode(n, C, t, due, msgs) ==
    CASE n = "message_sender" -> message_sender(C, t, due)
      [] n = "handle_inbound" -> handle_inbound(C, t, due, msgs)
      [] OTHER -> inbound_timeout(C, t, due)

\* The context at the start of an engine cycle in which the alarms in due fire.
CycleStart(due) ==
    [ State |-> State, hi |-> hiState, it |-> itState,
      alarms |-> alarms \ due, hist |-> hist,
      out |-> [sender |-> NoTick, inbound |-> NoTick,
               timeout |-> NoTick, presence |-> NoTick],
      stop |-> FALSE ]

\* The state after an engine cycle at time t that ended with the context C.
Commit(C, t) ==
    /\ State' = C.State
    /\ hiState' = C.hi
    /\ itState' = C.it
    /\ alarms' = C.alarms
    /\ now' = t
    /\ engine' = IF C.stop THEN "stopped" ELSE "running"
    /\ hist' = IF C.stop THEN [C.hist EXCEPT !.stopAt = Tick(t)] ELSE C.hist

\* One engine cycle at time t: the alarms in due and the subscription edge
\* msgs ticked; the source nodes run in the order o, then the nodes below them.
Cycle(o, t, due, msgs) ==
    \E C0 \in {CycleStart(due)} :
    \E C1 \in {RunNode(o[1], C0, t, due, msgs)} :
    \E C2 \in {RunNode(o[2], C1, t, due, msgs)} :
    \E C3 \in {RunNode(o[3], C2, t, due, msgs)} :
    \E C4 \in {presence_sequence(C3, t, due)} :
    \E C5 \in {check_complete(C4, t, due,
                               merge_for_complete(C4.out.inbound, C4.out.timeout))} :
    \E C6 \in {Outputs(C5)} :
        Commit(C6, t)

\* The time of the next alarm; EndTime + 1 when none is scheduled.
RECURSIVE MinTime(_)
MinTime(S) ==
    IF S = {} THEN EndTime + 1
    ELSE LET a == CHOOSE x \in S : TRUE
             m == MinTime(S \ {a})
         IN  IF a.time < m THEN a.time ELSE m

NextAlarm == MinTime(alarms)

\* csp.run(discord_csp_e2e_graph, endtime=30 s, realtime=True): the graph is
\* built and the csp.start() blocks schedule the first alarms.
RunGraph ==
    /\ mainPc = "phase1" /\ setupPc = "returned" /\ setupResult = "True"
    /\ mainPc' = "phase2"
    /\ engine' = "running"
    /\ now' = 0
    /\ alarms' = { [name |-> "a_step", time |-> FirstStepDelay, val |-> 0],
                   [name |-> "a_timeout_it", time |-> TimeoutDelay, val |-> 1],
                   [name |-> "a_idle", time |-> IdleDelay, val |-> 1],
                   [name |-> "a_online", time |-> OnlineDelay, val |-> 1] }
    /\ UNCHANGED <<setupPc, setupConn, setupResult, State, hiState, itState, inbound, hist>>
    /\ UNCHANGED <<adapterVars, cfgVars>>

\* The engine reaches the time of the next alarm: one cycle for every alarm
\* due then.
AlarmCycle(o) ==
    /\ engine = "running"
    /\ NextAlarm <= EndTime
    /\ Cycle(o, NextAlarm, {a \in alarms : a.time = NextAlarm}, NoTick)
    /\ UNCHANGED <<mainPc, setupPc, setupConn, setupResult, inbound>>
    /\ UNCHANGED <<adapterVars, cfgVars>>

\* A list of messages arrives on the subscription at time t, before the next
\* alarm is due: a cycle of its own.
InboundCycle(o, t, msgs) ==
    /\ engine = "running"
    /\ inbound < MaxInbound
    /\ now <= t /\ t <= NextAlarm /\ t <= EndTime
    /\ inbound' = inbound + 1
    /\ Cycle(o, t, {}, Tick(msgs))
    /\ UNCHANGED <<mainPc, setupPc, setupConn, setupResult>>
    /\ UNCHANGED <<adapterVars, cfgVars>>

\* A list of messages arrives in the very cycle in which the next alarm fires.
InboundAlarmCycle(o, msgs) ==
    /\ engine = "running"
    /\ inbound < MaxInbound
    /\ NextAlarm <= EndTime
    /\ inbound' = inbound + 1
    /\ Cycle(o, NextAlarm, {a \in alarms : a.time = NextAlarm}, Tick(msgs))
    /\ UNCHANGED <<mainPc, setupPc, setupConn, setupResult>>
    /\ UNCHANGED <<adapterVars, cfgVars>>

\* csp.run returns; main_async returns STATE.print_summary().
MainFinish ==
    /\ mainPc = "phase2" /\ engine = "stopped"
    /\ mainPc' = "done"
    /\ UNCHANGED <<setupPc, setupConn, setupResult, State, graphVars>>
    /\ UNCHANGED <<adapterVars, cfgVars>>

InitE2E ==
    /\ mainPc = "phase1"
    /\ setupPc = "connect"
    /\ setupConn = "none"
    /\ setupResult = "none"
    /\ engine = "notstarted"
    /\ now = 0
    /\ alarms = {}
    /\ State = TestState
    /\ hiState = [s_found |-> FALSE, s_timeout_scheduled |-> FALSE]
    /\ itState = [s_timed_out |-> FALSE]
    /\ inbound = 0
    /\ hist = NoHist
    /\ AdapterUnused
    /\ ConfigUnused

NextE2E ==
    \/ \E ok \in BOOLEAN : SetupConnect(ok)
    \/ \E found \in BOOLEAN : SetupGuild(found)
    \/ \E outcome \in {"found", "none", "raised"} : SetupChannel(outcome)
    \/ \E found \in BOOLEAN : SetupUser(found)
    \/ \E outcome \in {"found", "none", "raised"} : SetupBotInfo(outcome)
    \/ SetupFetchUser
    \/ \E ok \in BOOLEAN : SetupDisconnect(ok)
    \/ MainSetupFailed
    \/ RunGraph
    \/ \E o \in Orders : AlarmCycle(o)
    \/ \E o \in Orders, t \in InboundTimes, msgs \in InboundLists : InboundCycle(o, t, msgs)
    \/ \E o \in Orders, msgs \in InboundLists : InboundAlarmCycle(o, msgs)
    \/ MainFinish

SpecE2E == InitE2E /\ [][NextE2E]_vars

\* The realtime engine does not stall: an alarm that is due fires.
FairSpecE2E == SpecE2E /\ WF_vars(\E o \in Orders : AlarmCycle(o))

\* ================================================================== claims

C14_TokenValidation ==
    cfgPc \in {"built", "failed", "converted"} =>
        LET p == Path(given.token)
            namesFile == p \in Paths /\ fs[p].kind = "file"
            v == IF namesFile THEN strip(fs[p].text) ELSE given.token
        IN  IF Len(v) = TokenLen
            THEN /\ cfgPc # "failed"
                 /\ legacy = [token |-> v, intents |-> given.intents]
            ELSE /\ cfgPc = "failed"
                 /\ cfgErr = ValueErrorText
                 /\ legacy = NoObject

\* C15: subscribe and publish are pure forwarding.  Every subscribe call makes
\* one base subscribe call with the caller's three arguments (None, True, True
\* for an argument left out) and returns that call's stream; the base publish
\* sees, per edge, exactly the messages that ticked, in order and unchanged.
C15_PureForwarding ==
    /\ Len(baseSubscribe) = Len(subCalls)
    /\ \A k \in 1..Len(subCalls) :
        /\ baseSubscribe[k].channels =
              (IF subCalls[k].channels = Omitted THEN None ELSE subCalls[k].channels[1])
        /\ baseSubscribe[k].skip_own =
              (IF subCalls[k].skip_own = Omitted THEN TRUE ELSE subCalls[k].skip_own[1])
        /\ baseSubscribe[k].skip_history =
              (IF subCalls[k].skip_history = Omitted THEN TRUE
                                                     ELSE subCalls[k].skip_history[1])
        /\ subCalls[k].returned = k
    /\ basePub = pubIn

\* A subscribe call with different flags was made, and two different messages
\* ticked on one publish edge.
C15_Witness ==
    /\ \E k \in 1..Len(subCalls) :
          /\ subCalls[k].skip_own = Given(FALSE)
          /\ subCalls[k].skip_history = Omitted
          /\ subCalls[k].channels = Given(Some({"general"}))
    /\ \E i \in 1..Len(pubIn) : Len(pubIn[i]) = 2 /\ pubIn[i][1] # pubIn[i][2]

\* C16: publish_presence forwards one status string per tick of the presence
\* input, in tick order, with the caller's timeout (5.0 when left out); the
\* string is the status's value attribute when it has one, else str(status).
C16_PresenceForwarding ==
    /\ Len(basePres) = Len(presCalls)
    /\ Len(basePres) = Len(presIn)
    /\ \A i \in 1..Len(presCalls) :
        /\ basePres[i].timeout =
              (IF presCalls[i] = Omitted THEN DefaultTimeout ELSE presCalls[i][1])
        /\ Len(basePres[i].statuses) = Len(presIn[i])
        /\ \A k \in 1..Len(presIn[i]) :
              LET st == presIn[i][k].status
              IN  basePres[i].statuses[k] =
                     (IF "value" \in DOMAIN st THEN st.value ELSE st.str)

\* A presence edge wired without a timeout saw an enum status and then a
\* plain string.
C16_Witness ==
    \E i \in 1..Len(presCalls) :
        /\ presCalls[i] = Omitted
        /\ Len(presIn[i]) = 2
        /\ "value" \in DOMAIN presIn[i][1].status
        /\ "value" \notin DOMAIN presIn[i][2].status

\* C17: once the graph of Phase 2 has been started, the connection that the
\* Phase 1 setup opened is disconnected and the setup returned True, so no
\* Phase 1 connection is live while the engine runs; and when the setup returned
\* False (guild, channel or bot info not found) the engine is never started
\* and main_async is still in Phase 1 or has returned.
C17_PhaseSeparation ==
    /\ engine # "notstarted" => setupConn = "disconnected" /\ setupResult = "True"
    /\ mainPc = "phase2" => engine # "notstarted"
    /\ setupResult = "False" =>
          /\ engine = "notstarted"
          /\ mainPc \in {"phase1", "done"}
          /\ hist = NoHist

\* The graph runs after a setup that connected and disconnected.
C17_Witness ==
    /\ engine = "running" /\ now > 0
    /\ setupConn = "disconnected" /\ setupResult = "True"

\* The messages that node returned, in order.
EmittedBy(node) == SelectSeq(hist.emitted, LAMBDA m : m.from = node)

\* C18: message_sender runs the steps 0, 1, 2, 3, 4 in this order, each once,
\* the first 500 ms after the start and each next one a second later; each
\* step returns exactly one message; waiting_for_inbound is set by step 4
\* and by no other step; after step 4 no a_step alarm is scheduled, so no step
\* 5 or 6 ever runs; and the engine never stops before all five have run.
C18_SenderSteps ==
    LET steps == hist.steps
        sent == EmittedBy("message_sender")
    IN  /\ Len(steps) <= 5
        /\ \A i \in 1..Len(steps) :
              steps[i] = [step |-> i - 1, time |-> FirstStepDelay + (i - 1) * StepDelay]
        /\ Len(sent) = Len(steps)
        /\ \A i \in 1..Len(sent) : sent[i] = OutMsg("message_sender", i - 1)
        /\ hist.waitingSet = IF Len(steps) = 5 THEN <<4>> ELSE <<>>
        /\ State.waiting_for_inbound => Len(steps) = 5
        /\ Len(steps) = 5 => ~\E a \in alarms : a.name = "a_step"
        /\ engine = "running" /\ Len(steps) < 5 =>
              {a \in alarms : a.name = "a_step"} =
                  {[name |-> "a_step", val |-> Len(steps),
                    time |-> FirstStepDelay + Len(steps) * StepDelay]}
        /\ engine = "stopped" => Len(steps) = 5

\* The run is over and message_sender has run its five steps.
C18_Witness ==
    /\ engine = "stopped"
    /\ Len(hist.steps) = 5
    /\ hist.steps[5] = [step |-> 4, time |-> 4500]

\* C19: the inbound test is resolved at most once, and exactly once when the
\* wait that step 4 started is over: one outcome, either "received" (by
\* handle_inbound) or "timeout" (by the 10-second alarm of handle_inbound or
\* by the 15-second alarm of inbound_timeout), never two; every outcome
\* returns exactly one message and sets test_complete; the engine stops only
\* after the outcome; and the received message is never one whose author_id
\* is the bot's own id.
C19_ResolvedOnce ==
    LET out == hist.outcomes
    IN  /\ Len(out) <= 1
        /\ out # <<>> => hist.waitingSet # <<>>
        /\ Len(out) = 1 <=> (hist.waitingSet # <<>> /\ ~State.waiting_for_inbound)
        /\ Len(out) = 1 <=> State.test_complete
        /\ engine = "stopped" => Len(out) = 1
        /\ Len(EmittedBy("handle_inbound")) + Len(EmittedBy("inbound_timeout")) = Len(out)
        /\ State.received_message # None <=> (out # <<>> /\ out[1].kind = "received")
        /\ State.received_message # None =>
              LET msg == State.received_message[1]
              IN  ~(hasattr(msg, "author_id") /\ Some(msg.author_id) = State.bot_user_id)

\* Both timeout alarms were due in one engine cycle, 15 s after the start
\* (a tick with only the bot's own message had arrived at 5 s), and one
\* timeout was taken.
C19_Witness ==
    /\ hist.outcomes = <<[kind |-> "timeout", node |-> "handle_inbound",
                          time |-> TimeoutDelay]>>
    /\ hiState.s_timeout_scheduled
    /\ ~itState.s_timed_out
    /\ State.bot_user_id = Some(BotId)

\* The time at which step 4 sets waiting_for_inbound.
PromptTime == FirstStepDelay + 4 * StepDelay

C20_StopsAfterOutcome ==
    LET out == hist.outcomes
    IN  /\ out # <<>> /\ out[1].kind = "timeout" =>
              /\ State.received_message = None
              /\ ~State.waiting_for_inbound /\ State.test_complete
              /\ EmittedBy(out[1].node) = <<OutMsg(out[1].node, "skip")>>
              /\ out[1].node = "inbound_timeout" => out[1].time = TimeoutDelay
              /\ out[1].node = "handle_inbound" =>
                    /\ hiState.s_timeout_scheduled
                    /\ out[1].time >= PromptTime + InboundAlarmDelay
                    /\ out[1].time <= TimeoutDelay
        /\ out # <<>> /\ out[1].kind = "received" =>
              /\ out[1].node = "handle_inbound"
              /\ out[1].time >= PromptTime /\ out[1].time <= TimeoutDelay
              /\ EmittedBy("handle_inbound") = <<OutMsg("handle_inbound", "confirm")>>
        /\ out # <<>> /\ engine = "running" =>
              [name |-> "a_stop", time |-> out[1].time + StopDelay, val |-> 1] \in alarms
        /\ engine = "running" => NextAlarm <= TimeoutDelay + StopDelay
        /\ engine = "stopped" =>
              /\ hist.stopAt = Tick(out[1].time + StopDelay)
              /\ hist.stopAt[1] <= TimeoutDelay + StopDelay
              /\ hist.stopAt[1] < EndTime

Count(seq, msg) ==
    Cardinality({i \in 1..Len(seq) : seq[i].from = msg.from /\ seq[i].text = msg.text})

\* C21: every message that message_sender, handle_inbound or inbound_timeout
\* returned has been handed to adapter.publish exactly once by the end of the
\* engine cycle in which it was returned, and nothing else has been: the
\* merge nodes drop no message, also when two of their inputs tick in the
\* same engine cycle.
C21_NoMessageDropped ==
    /\ Len(hist.published) = Len(hist.emitted)
    /\ \A i \in 1..Len(hist.emitted) :
          Count(hist.published, PublishForward(hist.emitted[i])) = 1

====
